---- MODULE Spec2Model ----
(***************************************************************************)
(* Pace comparison pipeline of generate_stats_page.py, for one report of   *)
(* main(): the per-event load loop, load_races_dynamically,                *)
(* process_races_into_comparison_df, build_improvement_df and              *)
(* generate_html_tables.                                                   *)
(* create_display_df and create_plotly_json, which main() calls between    *)
(* these steps, derive presentation data only and change nothing that the  *)
(* steps below read; they are not modelled.  A file on which ET.parse or   *)
(* an element lookup of extract_xml_drivers raises is a file that is not   *)
(* wellformed; the exception ends main().                                  *)
(*                                                                         *)
(* Numbers.  Lap times are integers in milliseconds; a float BestLapTime   *)
(* of the XML carries one more digit (tenths of a millisecond), which the  *)
(* "%06.3f" formatting of extract_xml_drivers rounds away.  Percentages    *)
(* are integers in hundredths of a percent (round(x, 2) keeps two          *)
(* decimals).  NaN and Inf are two integers outside the range of every     *)
(* computed value.                                                         *)
(*                                                                         *)
(* Names.  A driver name is a sequence of tokens: words, the whitespace    *)
(* token " " and the class marker "LMGT3".                                 *)
(***************************************************************************)
EXTENDS Integers, Sequences, FiniteSets, TLC

VARIABLES
    config,          \* SPRINT_RACES / MULTICLASS_RACES ...: per round [ref_time]
    car_class,       \* "" for a sprint report, "P2UR" or "GT3" for a multiclass one
    xml,             \* per round: whether the file exists, whether ET.parse and
                     \* the element lookups succeed on it, and its <Driver> elements
    pc,              \* position in main()
    i,               \* next item of the load loop of main()
    race_dfs,        \* dict of main(): track name -> event table
    race_codes,      \* load_races_dynamically: codes of the files that exist
    track_names,     \* load_races_dynamically: their track names
    code_to_track,   \* load_races_dynamically: code -> track name
    comparison_df,   \* process_races_into_comparison_df: None, or the merged rows
    pace_cols,       \* process_races_into_comparison_df: codes of the pace columns
    improvement_df,  \* build_improvement_df: rows
    has_improvement, \* whether improvement_df carries the three improvement columns
    pace_html,       \* generate_html_tables: rows of the pace table
    improvement_html \* generate_html_tables: rows of the improvement table

vars == <<config, car_class, xml, pc, i, race_dfs, race_codes, track_names,
          code_to_track, comparison_df, pace_cols, improvement_df, has_improvement,
          pace_html, improvement_html>>

-----------------------------------------------------------------------------
(* Values *)

NaN == -1000000000
Inf == 1000000000
OUTLIER_PCT == 10700
None == [present |-> FALSE, rows |-> <<>>]
Some(rows) == [present |-> TRUE, rows |-> rows]

IsNa(x) == x = NaN

\* faulty variant: the value of 'David Carter' is itself a key
DRIVER_REPLACEMENTS_Chained ==
    << << <<"Greg", " ", "Kach">>, <<"Greg", " ", "Kachadurian">> >>,
       << <<"R", " ", "McLean">>, <<"Ross", " ", "McLean">> >>,
       << <<"Ricky", " ", "Swaby">>, <<"Ricardo", " ", "Swaby">> >>,
       << <<"p", " ", "thomas">>, <<"Parker", " ", "Thomas">> >>,
       << <<"David", " ", "Carter">>, <<"David", " ", "Carter#5529">> >>,
       << <<"David", " ", "Carter#5529">>, <<"Dave", " ", "Carter">> >>,
       << <<"John", " ", "P">>, <<"John", " ", "Pflibsen">> >>,
       << <<"Ayrton", " ", "Senna">>, <<"Ayrton", " ", "Torres">> >>,
       << <<"Avi", " ", "Ganti">>, <<"Avinash", " ", "Ganti">> >> >>

\* dict order of DRIVER_REPLACEMENTS
DRIVER_REPLACEMENTS ==
    << << <<"Greg", " ", "Kach">>, <<"Greg", " ", "Kachadurian">> >>,
       << <<"R", " ", "McLean">>, <<"Ross", " ", "McLean">> >>,
       << <<"Ricky", " ", "Swaby">>, <<"Ricardo", " ", "Swaby">> >>,
       << <<"p", " ", "thomas">>, <<"Parker", " ", "Thomas">> >>,
       << <<"David", " ", "Carter">>, <<"Dave", " ", "Carter">> >>,
       << <<"David", " ", "Carter#5529">>, <<"Dave", " ", "Carter">> >>,
       << <<"John", " ", "P">>, <<"John", " ", "Pflibsen">> >>,
       << <<"Ayrton", " ", "Senna">>, <<"Ayrton", " ", "Torres">> >>,
       << <<"Avi", " ", "Ganti">>, <<"Avinash", " ", "Ganti">> >> >>

\* The driver names of the model in the order of Python's str comparison.
NameOrder ==
    << <<>>,
       <<"Ann">>,
       <<"Dave", " ", "Carter">>,
       <<"David", " ", "Carter">>,
       <<"David", " ", "Carter#5529">>,
       <<"Greg", " ", "Kach">>,
       <<"Greg", " ", "Kachadurian">>,
       <<"R", " ", "McLean">>,
       <<"Ross", " ", "McLean">> >>

NameRank(name) == CHOOSE k \in 1..Len(NameOrder) : NameOrder[k] = name

-----------------------------------------------------------------------------
(* Arithmetic *)

\* round half to even of n / d, d > 0 (numpy.round keeps ties on the even digit)
RoundHalfEven(n, d) ==
    LET q == n \div d
        r == n % d
    IN  IF 2 * r < d THEN q
        ELSE IF 2 * r > d THEN q + 1
        ELSE IF q % 2 = 0 THEN q ELSE q + 1

\* round(a / b * 100, 2) in hundredths; a / 0 is inf (or NaN for 0 / 0) in pandas
PctRound(a, b) ==
    IF a = NaN \/ b = NaN THEN NaN
    ELSE IF b = 0 THEN (IF a = 0 THEN NaN ELSE IF a > 0 THEN Inf ELSE -Inf)
    ELSE IF b > 0 THEN RoundHalfEven(a * 10000, b)
    ELSE RoundHalfEven(-a * 10000, -b)

\* min of a set of cells skipping NaN; NaN when nothing is left
MinSkipNa(S) ==
    LET V == {x \in S : ~IsNa(x)}
    IN  IF V = {} THEN NaN ELSE CHOOSE m \in V : \A x \in V : m <= x

Range(s) == {s[k] : k \in 1..Len(s)}

-----------------------------------------------------------------------------
(* extract_xml_drivers and convert_laptime_to_seconds *)

\* BestLapTime text of the XML: kind "float" (a finite number, a ms plus b
\* tenths of a ms), "clock" ("a:b", a minutes and b ms), "badclock" (a ':'
\* with a part that is no number), "nan" (the text 'nan', which float() reads
\* as NaN), "text" (none of these) or "empty".
\* 'Best Lap  Laps' of extract_xml_drivers: a float is rewritten "m:ss.sss",
\* the seconds rounded to the millisecond; an empty text becomes 'DNF'.
BestLapLaps(t) ==
    IF t.kind = "float"
    THEN [kind |-> "clock", a |-> t.a \div 60000,
          b |-> RoundHalfEven(10 * (t.a % 60000) + t.b, 10)]
    ELSE IF t.kind = "empty" THEN [kind |-> "text", a |-> 0, b |-> 0]
    ELSE t   \* int(nan // 60) raises ValueError: the text 'nan' is kept too

\* faulty variant: the minutes are not multiplied by 60
convert_laptime_to_seconds_NoMinutes(s) ==
    IF s.kind = "clock" THEN s.a * 1000 + s.b
    ELSE IF s.kind = "num" THEN (IF IsNa(s.a) THEN 0 ELSE s.a)
    ELSE IF s.kind = "nan" THEN NaN
    ELSE 0

\* laptime_sec in ms.  A number ("num", a ms) is 0.0 when pd.isna and else
\* str() and float() give it back; "a:b" is minutes * 60 + seconds; 'nan' is
\* float('nan'); every other text is 0.0 (ValueError of float()).
convert_laptime_to_seconds(s) ==
    IF s.kind = "clock" THEN s.a * 60000 + s.b
    ELSE IF s.kind = "num" THEN (IF IsNa(s.a) THEN 0 ELSE s.a)
    ELSE IF s.kind = "nan" THEN NaN
    ELSE 0

-----------------------------------------------------------------------------
(* Driver_name of process_race_data *)

HasMarker(raw) == \E k \in 1..Len(raw) : raw[k] = "LMGT3"

\* str.split('LMGT3')[0]
BeforeMarker(raw) ==
    LET k == CHOOSE k \in 1..Len(raw) :
                 raw[k] = "LMGT3" /\ \A j \in 1..(k - 1) : raw[j] # "LMGT3"
    IN  SubSeq(raw, 1, k - 1)

RECURSIVE LStrip(_)
LStrip(s) == IF s # <<>> /\ Head(s) = " " THEN LStrip(Tail(s)) ELSE s

RECURSIVE RStrip(_)
RStrip(s) ==
    IF s # <<>> /\ s[Len(s)] = " " THEN RStrip(SubSeq(s, 1, Len(s) - 1)) ELSE s

Strip(s) == RStrip(LStrip(s))

\* faulty variant: the replace acts on a copy of the column and is lost
ApplyReplacements_Lost(name, k) == name

RECURSIVE ApplyReplacements(_, _)
ApplyReplacements(name, k) ==
    IF k > Len(DRIVER_REPLACEMENTS) THEN name
    ELSE ApplyReplacements(
             IF name = DRIVER_REPLACEMENTS[k][1]
             THEN DRIVER_REPLACEMENTS[k][2] ELSE name,
             k + 1)

DriverName(raw) ==
    ApplyReplacements(
        IF HasMarker(raw) THEN Strip(BeforeMarker(raw)) ELSE Strip(raw), 1)

-----------------------------------------------------------------------------
(* process_race_data and process_multiclass_race_data *)

\* df['CarClass'].str.contains(needle, case=False)
ClassContains(cls, needle) ==
    IF needle = "GT3" THEN cls \in {"GT3", "LMGT3", "gt3"}
    ELSE IF needle = "LMP2_ELMS" THEN cls \in {"LMP2_ELMS", "lmp2_elms"}
    ELSE FALSE

\* the class filter of process_multiclass_race_data
ClassFilter(drivers, cls) ==
    LET Keep(d) == IF cls = "P2UR" THEN ClassContains(d.CarClass, "LMP2_ELMS")
                   ELSE IF cls = "GT3" THEN ClassContains(d.CarClass, "GT3")
                   ELSE TRUE
    IN  SelectSeq(drivers, Keep)

LaptimeSec(d) == convert_laptime_to_seconds(BestLapLaps(d.BestLapTime))

\* faulty variant: .max() of the valid laps
MinLaptime_Max(drivers) ==
    LET V == {LaptimeSec(drivers[k]) : k \in {j \in 1..Len(drivers) :
                                                 LaptimeSec(drivers[j]) > 0}}
    IN  IF V = {} THEN NaN ELSE CHOOSE m \in V : \A x \in V : m >= x

\* faulty variant: df['laptime_sec'].min() without the > 0 filter
MinLaptime_Unfiltered(drivers) ==
    MinSkipNa({LaptimeSec(drivers[k]) : k \in 1..Len(drivers)})

\* df[df['laptime_sec'] > 0]['laptime_sec'].min()
MinLaptime(drivers) ==
    MinSkipNa({LaptimeSec(drivers[k]) : k \in {j \in 1..Len(drivers) :
                                                LaptimeSec(drivers[j]) > 0}})

LaptimePct(min_laptime, sec) ==
    IF ~IsNa(min_laptime) /\ min_laptime > 0 THEN PctRound(min_laptime, sec)
    ELSE 10000

\* faulty variant: no `if ref_laptime > 0` guard
LaptimePctAlien_Unguarded(sec, ref_laptime) == PctRound(sec, ref_laptime)

\* faulty variant: no percentage for a reference lap of 0 or below
LaptimePctAlien_Missing(sec, ref_laptime) ==
    IF ref_laptime > 0 THEN PctRound(sec, ref_laptime) ELSE NaN

LaptimePctAlien(sec, ref_laptime) ==
    IF ref_laptime > 0 THEN PctRound(sec, ref_laptime) ELSE 10000

\* the columns of the event table that the comparison reads
PaceTable(drivers, ref_laptime) ==
    [k \in 1..Len(drivers) |->
        [Driver_name |-> DriverName(drivers[k].Driver),
         laptime_sec |-> LaptimeSec(drivers[k]),
         laptime_pct |-> LaptimePct(MinLaptime(drivers), LaptimeSec(drivers[k])),
         laptime_pct_alien |-> LaptimePctAlien(LaptimeSec(drivers[k]), ref_laptime)]]

\* None when extract_xml_drivers returns no table
process_race_data(drivers, ref_laptime) ==
    IF drivers = <<>> THEN None ELSE Some(PaceTable(drivers, ref_laptime))

\* None when there is no table or no row of the class
process_multiclass_race_data(drivers, cls, ref_laptime) ==
    IF drivers = <<>> \/ ClassFilter(drivers, cls) = <<>> THEN None
    ELSE Some(PaceTable(ClassFilter(drivers, cls), ref_laptime))

-----------------------------------------------------------------------------
(* process_races_into_comparison_df *)

\* A row of the comparison table: Driver_name and, per pace column, the
\* laptime_pct_alien cell.  The laptime_sec_ and laptime_pct_ columns of the
\* merge are read by no later step and are left out.
NaNs(n) == [k \in 1..n |-> NaN]

RECURSIVE Flatten(_)
Flatten(ss) == IF ss = <<>> THEN <<>> ELSE Head(ss) \o Flatten(Tail(ss))

\* faulty variant: how='left', the rows of the right table without match are lost
OuterMerge_Left(left, width, right) ==
    LET Matches(l) == LET Same(r) == r.Driver_name = l.Driver_name
                      IN  SelectSeq(right, Same)
        Joined(l) ==
            IF Matches(l) = <<>>
            THEN << [Driver_name |-> l.Driver_name, cells |-> l.cells \o <<NaN>>] >>
            ELSE [k \in 1..Len(Matches(l)) |->
                     [Driver_name |-> l.Driver_name,
                      cells |-> l.cells \o <<Matches(l)[k].laptime_pct_alien>>]]
    IN  Flatten([k \in 1..Len(left) |-> Joined(left[k])])

\* DataFrame.merge(right, on='Driver_name', how='outer'): every pair of rows
\* with the same key, and the unmatched rows of either side padded with NaN
OuterMerge(left, width, right) ==
    LET Matches(l) == LET Same(r) == r.Driver_name = l.Driver_name
                      IN  SelectSeq(right, Same)
        Joined(l) ==
            IF Matches(l) = <<>>
            THEN << [Driver_name |-> l.Driver_name, cells |-> l.cells \o <<NaN>>] >>
            ELSE [k \in 1..Len(Matches(l)) |->
                     [Driver_name |-> l.Driver_name,
                      cells |-> l.cells \o <<Matches(l)[k].laptime_pct_alien>>]]
        Unmatched(r) == \A k \in 1..Len(left) : left[k].Driver_name # r.Driver_name
        RightOnly == SelectSeq(right, Unmatched)
    IN  Flatten([k \in 1..Len(left) |-> Joined(left[k])])
        \o [k \in 1..Len(RightOnly) |->
               [Driver_name |-> RightOnly[k].Driver_name,
                cells |-> NaNs(width) \o <<RightOnly[k].laptime_pct_alien>>]]

\* the first race, renamed
SeedRows(df) ==
    [k \in 1..Len(df) |->
        [Driver_name |-> df[k].Driver_name, cells |-> <<df[k].laptime_pct_alien>>]]

\* the merge loop over race_codes[1:]: <<rows, pace_cols>>
RECURSIVE MergeRaces(_, _, _, _, _)
MergeRaces(rows, cols, codes, c2t, dfs) ==
    IF codes = <<>> THEN <<rows, cols>>
    ELSE IF c2t[Head(codes)] \in DOMAIN dfs
    THEN MergeRaces(OuterMerge(rows, Len(cols), dfs[c2t[Head(codes)]]),
                    Append(cols, Head(codes)), Tail(codes), c2t, dfs)
    ELSE MergeRaces(rows, cols, Tail(codes), c2t, dfs)

\* .replace(0.00, np.nan)
ReplaceZero(rows) ==
    [k \in 1..Len(rows) |->
        [rows[k] EXCEPT !.cells = [j \in 1..Len(@) |-> IF @[j] = 0 THEN NaN ELSE @[j]]]]

AllNa(row) == \A j \in 1..Len(row.cells) : IsNa(row.cells[j])

\* .dropna(subset=pace_cols, how='all')
DropAllNa(rows) == LET Keep(r) == ~AllNa(r) IN SelectSeq(rows, Keep)

\* faulty variant: the ceiling mistyped as 108.0
OutlierCell_Ceiling108(x) == IF IsNa(x) \/ x <= 10800 THEN x ELSE NaN

\* lambda x: x if pd.isna(x) or x <= 107.0 else np.nan
OutlierCell(x) == IF IsNa(x) \/ x <= OUTLIER_PCT THEN x ELSE NaN

OutlierFilter(rows) ==
    [k \in 1..Len(rows) |->
        [rows[k] EXCEPT !.cells = [j \in 1..Len(@) |-> OutlierCell(@[j])]]]

\* the "Clean up" block before the sort
CleanUp(rows) == OutlierFilter(DropAllNa(ReplaceZero(rows)))

RemoveAt(s, k) == SubSeq(s, 1, k - 1) \o SubSeq(s, k + 1, Len(s))

\* sort_values with the default (unstable) quicksort: every arrangement of
\* the rows that is ascending in the keys (keys[k] is the key of rows[k])
RECURSIVE SortedArrangements(_, _)
SortedArrangements(rows, keys) ==
    IF rows = <<>> THEN {<<>>}
    ELSE LET least == CHOOSE m \in Range(keys) : \A x \in Range(keys) : m <= x
         IN  UNION {{<<rows[k]>> \o rest :
                        rest \in SortedArrangements(RemoveAt(rows, k), RemoveAt(keys, k))} :
                    k \in {j \in 1..Len(rows) : keys[j] = least}}

\* .sort_values('Driver_name')
SortedByName(rows) ==
    SortedArrangements(rows, [k \in 1..Len(rows) |-> NameRank(rows[k].Driver_name)])

\* comparison_df and pace_cols returned by process_races_into_comparison_df,
\* before the final sort
ComparisonRows(dfs, codes, c2t) ==
    LET m == MergeRaces(SeedRows(dfs[c2t[Head(codes)]]), <<Head(codes)>>,
                        Tail(codes), c2t, dfs)
    IN  <<CleanUp(m[1]), m[2]>>

-----------------------------------------------------------------------------
(* build_improvement_df *)

\* faulty variant: min(axis=1, skipna=False), a missing cell makes the minimum missing
BestOf_NoSkip(row, lo, hi) ==
    IF \E j \in lo..hi : IsNa(row.cells[j]) THEN NaN
    ELSE MinSkipNa({row.cells[j] : j \in lo..hi})

\* min(axis=1) over the columns lo..hi of the row
BestOf(row, lo, hi) == MinSkipNa({row.cells[j] : j \in lo..hi})

\* faulty variant: best_last_two - best_first_two
Diff_Reversed(a, b) == IF IsNa(a) \/ IsNa(b) THEN NaN ELSE b - a

\* improvement_df['best_first_two'] - improvement_df['best_last_two']
Diff(a, b) == IF IsNa(a) \/ IsNa(b) THEN NaN ELSE a - b

\* faulty variant: best_last_two over pace_cols[-1:], the last column alone
ImprovementRow_LastOne(row, n) ==
    [Driver_name |-> row.Driver_name, cells |-> row.cells,
     best_first_two |-> BestOf(row, 1, 2),
     best_last_two |-> BestOf(row, n, n),
     improvement |-> Diff(BestOf(row, 1, 2), BestOf(row, n, n))]

ImprovementRow(row, n) ==
    [Driver_name |-> row.Driver_name, cells |-> row.cells,
     best_first_two |-> BestOf(row, 1, 2),
     best_last_two |-> BestOf(row, n - 1, n),
     improvement |-> Diff(BestOf(row, 1, 2), BestOf(row, n - 1, n))]

\* the frame without the three improvement columns (fewer than two races)
PlainRow(row) ==
    [Driver_name |-> row.Driver_name, cells |-> row.cells,
     best_first_two |-> NaN, best_last_two |-> NaN, improvement |-> NaN]

\* .sort_values('improvement', ascending=False): NaN last
SortedByImprovement(rows) ==
    SortedArrangements(rows,
        [k \in 1..Len(rows) |->
            IF IsNa(rows[k].improvement) THEN Inf ELSE -rows[k].improvement])

\* the set of frames build_improvement_df may return
build_improvement_df(rows, cols) ==
    LET kept == DropAllNa(ReplaceZero(rows))
    IN  IF Len(cols) >= 2
        THEN SortedByImprovement(
                 [k \in 1..Len(kept) |-> ImprovementRow(kept[k], Len(cols))])
        ELSE {[k \in 1..Len(kept) |-> PlainRow(kept[k])]}

-----------------------------------------------------------------------------
(* generate_html_tables *)

Words(name) == LET W(t) == t # " " IN SelectSeq(name, W)

RECURSIVE JoinWords(_)
JoinWords(ws) ==
    IF Len(ws) <= 1 THEN ws ELSE <<Head(ws), " ">> \o JoinWords(Tail(ws))

\* "F. Lastname": the token "~" stands for 'first letter of the next word'
ShortName(name) ==
    IF Len(Words(name)) > 1
    THEN <<"~", Head(Words(name)), ".", " ">> \o JoinWords(Tail(Words(name)))
    ELSE name

\* rows of the pace table
PaceTableRows(rows) ==
    LET kept == DropAllNa(rows)
    IN  [k \in 1..Len(kept) |->
            [Driver |-> ShortName(kept[k].Driver_name), cells |-> kept[k].cells]]

\* faulty variant: no .dropna(subset=['improvement'])
ImprovementTableRows_KeepAll(rows) ==
    [k \in 1..Len(rows) |->
        [Driver |-> rows[k].Driver_name,
         best_first_two |-> rows[k].best_first_two,
         best_last_two |-> rows[k].best_last_two,
         improvement |-> rows[k].improvement]]

\* rows of the improvement table: .dropna(subset=['improvement'])
ImprovementTableRows(rows) ==
    LET Keep(r) == ~IsNa(r.improvement)
        kept == SelectSeq(rows, Keep)
    IN  [k \in 1..Len(kept) |->
            [Driver |-> kept[k].Driver_name,
             best_first_two |-> kept[k].best_first_two,
             best_last_two |-> kept[k].best_last_two,
             improvement |-> kept[k].improvement]]

-----------------------------------------------------------------------------
(* Inputs *)

MaxRounds == 3     \* configured rounds of a championship
MaxDrivers == 3    \* <Driver> elements over all files of a championship
MaxFieldSize == 3  \* <Driver> elements of the single event of SpecEvent

TRACK_NAMES ==
    <<"Portimao", "Le Mans", "Interlagos", "Monza", "Sebring", "Paul Ricard",
      "COTA", "Spa">>

Float(a, b) == [kind |-> "float", a |-> a, b |-> b]
Clock(a, b) == [kind |-> "clock", a |-> a, b |-> b]
Text == [kind |-> "text", a |-> 0, b |-> 0]
Empty == [kind |-> "empty", a |-> 0, b |-> 0]
BadClock == [kind |-> "badclock", a |-> 0, b |-> 0]
NanText == [kind |-> "nan", a |-> 0, b |-> 0]
Num(x) == [kind |-> "num", a |-> x, b |-> 0]

Driver(name, cls, lap) == [Driver |-> name, CarClass |-> cls, BestLapTime |-> lap]

GregKach == <<"Greg", " ", "Kach">>
GregFull == <<"Greg", " ", "Kachadurian", " ", "LMGT3", " ", "#12">>
Ann == <<"Ann">>

\* reference lap of 100 s in ms: a lap of 104.5 s is 104.50 %
RefTime == 100 * 1000

\* <Driver> elements of the championship runs
DriverPool ==
    << Driver(GregKach, "GT3", Float(105000, 0)),
       Driver(GregFull, "GT3", Clock(1, 42000)),
       Driver(GregKach, "GT3", Empty),
       Driver(Ann, "GT3", Float(107000, 4)),
       Driver(Ann, "GT3", Float(107500, 0)) >>

\* <Driver> elements of the single-event runs
FieldPool ==
    << Driver(Ann, "GT3", Float(104500, 0)),
       Driver(Ann, "GT3", Clock(1, 41200)),
       Driver(Ann, "GT3", Float(101199, 6)),
       Driver(Ann, "GT3", Text),
       Driver(Ann, "GT3", Float(-5000, 0)),
       Driver(Ann, "LMP2_ELMS", Float(4, 0)),
       Driver(Ann, "LMP2_ELMS", Float(99000, 0)) >>

\* The fields of at most n elements of the pool.  Every sort of the pipeline
\* may arrange equal keys in any order, so the order of the elements in a
\* file is immaterial and one order per multiset is drawn.
Fields(pool, n) ==
    UNION {{[k \in 1..m |-> pool[ix[k]]] :
               ix \in {f \in [1..m -> 1..Len(pool)] :
                          \A a, b \in 1..m : a < b => f[a] <= f[b]}} :
           m \in 0..n}

\* the files of n rounds with at most t <Driver> elements altogether
RECURSIVE Files(_, _, _)
Files(pool, n, t) ==
    IF n = 0 THEN {<<>>}
    ELSE UNION {{<<f>> \o rest : rest \in Files(pool, n - 1, t - Len(f.drivers))} :
                f \in {[exists |-> FALSE, wellformed |-> TRUE, drivers |-> <<>>]}
                      \cup {[exists |-> TRUE, wellformed |-> TRUE, drivers |-> d] :
                               d \in Fields(pool, t)}}

Configs(n, refs) ==
    {[k \in 1..n |-> [name |-> TRACK_NAMES[k], ref_time |-> rs[k]]] : rs \in [1..n -> refs]}

InitWith(rounds, refs, classes, pool, t) ==
    /\ \E n \in rounds : /\ config \in Configs(n, refs)
                          /\ xml \in Files(pool, n, t)
    /\ car_class \in classes
    /\ pc = "load"
    /\ i = 1
    /\ race_dfs = <<>>
    /\ race_codes = <<>>
    /\ track_names = <<>>
    /\ code_to_track = <<>>
    /\ comparison_df = None
    /\ pace_cols = <<>>
    /\ improvement_df = <<>>
    /\ has_improvement = FALSE
    /\ pace_html = <<>>
    /\ improvement_html = <<>>

Init == InitWith(1..MaxRounds, {RefTime}, {""}, DriverPool, MaxDrivers)

InitEvent ==
    InitWith({1}, {RefTime, 93650, 0, -RefTime}, {"", "P2UR", "GT3"}, FieldPool,
             MaxFieldSize)

\* <Driver> elements of the two-round runs with reference laps of any sign
RefPool ==
    << Driver(GregKach, "GT3", Float(105000, 0)),
       Driver(Ann, "GT3", Float(103000, 0)),
       Driver(Ann, "GT3", Empty) >>

InitRef == InitWith({2}, {RefTime, 0, -RefTime}, {""}, RefPool, MaxFieldSize)

\* <Driver> elements of the single-event runs over the BestLapTime texts:
\* 104.5006, 119.9996 ("1:60.000"), -5.0 ("-1:55.000"), "1:41.200",
\* "-1:30.000", a text without number, no text, "1:4x" and "nan"
LapPool ==
    << Driver(Ann, "GT3", Float(104500, 6)),
       Driver(Ann, "GT3", Float(119999, 6)),
       Driver(Ann, "GT3", Float(-5000, 0)),
       Driver(Ann, "GT3", Clock(1, 41200)),
       Driver(Ann, "GT3", Clock(-1, 30000)),
       Driver(Ann, "GT3", Text),
       Driver(Ann, "GT3", Empty),
       Driver(Ann, "GT3", BadClock),
       Driver(Ann, "GT3", NanText) >>

InitLaptime == InitWith({1}, {RefTime}, {""}, LapPool, MaxFieldSize)

\* <Driver> elements of the two-round runs over the spellings of a name:
\* two alias keys of one driver and the driver's canonical name, an alias key
\* between blanks, an alias key before the class marker, a canonical name
NameLap == Float(103000, 0)
NamePool ==
    << Driver(<<"David", " ", "Carter">>, "GT3", NameLap),
       Driver(<<"David", " ", "Carter#5529">>, "GT3", NameLap),
       Driver(<<"Dave", " ", "Carter">>, "GT3", NameLap),
       Driver(<<" ", "R", " ", "McLean", " ">>, "GT3", NameLap),
       Driver(<<"R", " ", "McLean", " ", "LMGT3", " ", "#7">>, "GT3", NameLap),
       Driver(<<"Ross", " ", "McLean">>, "GT3", NameLap) >>

InitNames == InitWith({2}, {RefTime}, {""}, NamePool, MaxFieldSize)

\* A championship of SeasonRounds rounds, files 's3-sc1-r.xml' to
\* 's3-sc<SeasonRounds>-r.xml' in the order of the rounds; the file of a
\* round is absent or holds one driver whose pace differs from round to round.
SeasonRounds == 10

SeasonTracks == TRACK_NAMES \o <<"Imola", "Fuji", "Bahrain", "Daytona">>

SeasonFile(k) ==
    [exists |-> TRUE, wellformed |-> TRUE,
     drivers |-> <<Driver(Ann, "GT3", Float(RefTime + 500 * k, 0))>>]

InitSeason ==
    /\ config = [k \in 1..SeasonRounds |-> [name |-> SeasonTracks[k], ref_time |-> RefTime]]
    /\ \E E \in SUBSET (1..SeasonRounds) :
           xml = [k \in 1..SeasonRounds |->
                     IF k \in E THEN SeasonFile(k)
                     ELSE [exists |-> FALSE, wellformed |-> TRUE, drivers |-> <<>>]]
    /\ car_class = ""
    /\ pc = "load"
    /\ i = 1
    /\ race_dfs = <<>>
    /\ race_codes = <<>>
    /\ track_names = <<>>
    /\ code_to_track = <<>>
    /\ comparison_df = None
    /\ pace_cols = <<>>
    /\ improvement_df = <<>>
    /\ has_improvement = FALSE
    /\ pace_html = <<>>
    /\ improvement_html = <<>>

\* a file that is no XML document (ET.parse raises ParseError), or one whose
\* root has no child element (root[0] raises IndexError)
MalformedFile == [exists |-> TRUE, wellformed |-> FALSE, drivers |-> <<>>]

\* Three-round runs in which any of the files may be malformed.
InitMalformed ==
    /\ config \in Configs(3, {RefTime})
    /\ \E fs \in Files(RefPool, 3, MaxFieldSize) : \E B \in SUBSET (1..3) :
           xml = [k \in 1..3 |-> IF k \in B THEN MalformedFile ELSE fs[k]]
    /\ car_class = ""
    /\ pc = "load"
    /\ i = 1
    /\ race_dfs = <<>>
    /\ race_codes = <<>>
    /\ track_names = <<>>
    /\ code_to_track = <<>>
    /\ comparison_df = None
    /\ pace_cols = <<>>
    /\ improvement_df = <<>>
    /\ has_improvement = FALSE
    /\ pace_html = <<>>
    /\ improvement_html = <<>>

\* Three rounds with Greg (after the alias) and Ann in every file or absent
\* from it: per round one of Greg's laps or none, and one of Ann's laps.
GregLaps == {Float(104500, 0), Float(101200, 0), Float(105000, 0), Float(102000, 0)}
AnnLaps == {Float(103000, 0), Float(102500, 0), Float(107500, 0)}

ScenarioFile(g, a) ==
    [exists |-> TRUE, wellformed |-> TRUE,
     drivers |-> (IF g = Empty THEN <<>> ELSE <<Driver(GregKach, "GT3", g)>>)
                 \o <<Driver(Ann, "GT3", a)>>]

ScenarioFiles ==
    {[k \in 1..3 |-> ScenarioFile(g[k], a[k])] :
        g \in {f \in [1..3 -> GregLaps \cup {Empty}] :
                  Cardinality({k \in 1..3 : f[k] = Empty}) = 1},
        a \in [1..3 -> AnnLaps]}

InitScenario ==
    /\ config \in Configs(3, {RefTime})
    /\ xml \in ScenarioFiles
    /\ car_class = ""
    /\ pc = "load"
    /\ i = 1
    /\ race_dfs = <<>>
    /\ race_codes = <<>>
    /\ track_names = <<>>
    /\ code_to_track = <<>>
    /\ comparison_df = None
    /\ pace_cols = <<>>
    /\ improvement_df = <<>>
    /\ has_improvement = FALSE
    /\ pace_html = <<>>
    /\ improvement_html = <<>>

-----------------------------------------------------------------------------
(* main(), one report *)

\* process_race_data for a sprint report, process_multiclass_race_data otherwise
ProcessFile(drivers, ref_laptime) ==
    IF car_class = "" THEN process_race_data(drivers, ref_laptime)
    ELSE process_multiclass_race_data(drivers, car_class, ref_laptime)

\* one iteration of the load loop; after the last one, `if race_dfs:`.
\* An exception of extract_xml_drivers is caught nowhere and ends main().
LoadEvent ==
    /\ pc = "load"
    /\ IF xml[i].exists /\ ~xml[i].wellformed
       THEN /\ pc' = "ParseError"
            /\ UNCHANGED <<race_dfs, i>>
       ELSE LET df == ProcessFile(xml[i].drivers, config[i].ref_time)
                dfs == IF xml[i].exists /\ df.present
                       THEN [n \in DOMAIN race_dfs \cup {config[i].name} |->
                                IF n = config[i].name THEN df.rows ELSE race_dfs[n]]
                       ELSE race_dfs
            IN  /\ race_dfs' = dfs
                /\ pc' = IF i < Len(config) THEN "load"
                         ELSE IF DOMAIN dfs # {} THEN "codes" ELSE "omitted"
                /\ i' = i + 1
    /\ UNCHANGED <<config, car_class, xml, race_codes, track_names, code_to_track,
                   comparison_df, pace_cols, improvement_df, has_improvement,
                   pace_html, improvement_html>>

\* codes of the files that exist, in filename order
RECURSIVE Digits(_)
Digits(k) == IF k < 10 THEN <<k>> ELSE Digits(k \div 10) \o <<k % 10>>

\* str order of the digit texts a and b when each is followed by '-' or '.',
\* characters that are below every digit
RECURSIVE DigitsBefore(_, _)
DigitsBefore(a, b) ==
    IF a = <<>> THEN b # <<>>
    ELSE IF b = <<>> THEN FALSE
    ELSE IF Head(a) # Head(b) THEN Head(a) < Head(b)
    ELSE DigitsBefore(Tail(a), Tail(b))

\* 's3-sc<j>-r.xml' < 's3-sc<k>-r.xml' as Python compares the two strings
FilenameBefore(j, k) == DigitsBefore(Digits(j), Digits(k))

\* sorted(config_dict.items(), key=lambda x: x[0]) over the rounds of S
RECURSIVE SortedByFilename(_)
SortedByFilename(S) ==
    IF S = {} THEN <<>>
    ELSE LET m == CHOOSE m \in S : \A k \in S \ {m} : FilenameBefore(m, k)
         IN  <<m>> \o SortedByFilename(S \ {m})

ExistingCodes == SortedByFilename({k \in 1..Len(config) : xml[k].exists})

load_races_dynamically ==
    /\ pc = "codes"
    /\ race_codes' = ExistingCodes
    /\ track_names' = [k \in 1..Len(ExistingCodes) |-> config[ExistingCodes[k]].name]
    /\ code_to_track' = [c \in Range(ExistingCodes) |-> config[c].name]
    /\ pc' = "compare"
    /\ UNCHANGED <<config, car_class, xml, i, race_dfs, comparison_df, pace_cols,
                   improvement_df, has_improvement, pace_html, improvement_html>>

process_races_into_comparison_df ==
    /\ pc = "compare"
    /\ IF race_codes = <<>> \/ code_to_track[Head(race_codes)] \notin DOMAIN race_dfs
       THEN /\ comparison_df' = None
            /\ pace_cols' = <<>>
            /\ pc' = "omitted"
       ELSE LET m == ComparisonRows(race_dfs, race_codes, code_to_track)
            IN  /\ \E rows \in SortedByName(m[1]) : comparison_df' = Some(rows)
                /\ pace_cols' = m[2]
                /\ pc' = "improve"
    /\ UNCHANGED <<config, car_class, xml, i, race_dfs, race_codes, track_names,
                   code_to_track, improvement_df, has_improvement, pace_html,
                   improvement_html>>

BuildImprovement ==
    /\ pc = "improve"
    /\ improvement_df' \in build_improvement_df(comparison_df.rows, pace_cols)
    /\ has_improvement' = (Len(pace_cols) >= 2)
    /\ pc' = "tables"
    /\ UNCHANGED <<config, car_class, xml, i, race_dfs, race_codes, track_names,
                   code_to_track, comparison_df, pace_cols, pace_html,
                   improvement_html>>

\* KeyError: dropna(subset=track_names) names a column the pace table lacks,
\* or improvement_df lacks the improvement columns
generate_html_tables ==
    /\ pc = "tables"
    /\ IF Len(track_names) > Len(pace_cols)
       THEN /\ pc' = "KeyError"
            /\ UNCHANGED <<pace_html, improvement_html>>
       ELSE IF ~has_improvement
       THEN /\ pc' = "KeyError"
            /\ UNCHANGED <<pace_html, improvement_html>>
       ELSE /\ pace_html' = PaceTableRows(comparison_df.rows)
            /\ improvement_html' = ImprovementTableRows(improvement_df)
            /\ pc' = "written"
    /\ UNCHANGED <<config, car_class, xml, i, race_dfs, race_codes, track_names,
                   code_to_track, comparison_df, pace_cols, improvement_df,
                   has_improvement>>

Next ==
    \/ LoadEvent
    \/ load_races_dynamically
    \/ process_races_into_comparison_df
    \/ BuildImprovement
    \/ generate_html_tables

Spec == Init /\ [][Next]_vars

SpecEvent == InitEvent /\ [][Next]_vars

SpecScenario == InitScenario /\ [][Next]_vars

SpecRef == InitRef /\ [][Next]_vars

SpecLaptime == InitLaptime /\ [][Next]_vars

SpecMalformed == InitMalformed /\ [][Next]_vars

SpecNames == InitNames /\ [][Next]_vars

SpecSeason == InitSeason /\ [][Next]_vars

-----------------------------------------------------------------------------
(* Reading the state *)

Rows == comparison_df.rows

\* the event table behind pace column j
EventOf(j) == race_dfs[code_to_track[pace_cols[j]]]

NamesOf(df) == {df[k].Driver_name : k \in 1..Len(df)}

Compared == pc \in {"improve", "tables", "written", "KeyError"}

Improved == pc \in {"tables", "written", "KeyError"}

TrackIndex(name) == CHOOSE k \in 1..Len(config) : config[k].name = name

Abs(x) == IF x < 0 THEN -x ELSE x

\* a pace that the clean-up keeps
ValidPace(v) == ~IsNa(v) /\ v # 0 /\ v <= OUTLIER_PCT

Reverse(s) == [k \in 1..Len(s) |-> s[Len(s) + 1 - k]]

-----------------------------------------------------------------------------
(* Claims *)

\* C1: no pace-vs-reference cell of the comparison table is above 107.00, a
\* pace of exactly 107.00 of a merged event is kept in its column, and
\* best_first_two, best_last_two and improvement are computed from cells of
\* the table only, so none of them comes from a value above 107.00.
C1_OutlierCeiling ==
    /\ Compared =>
          /\ \A k \in 1..Len(Rows) : \A j \in 1..Len(pace_cols) :
                 IsNa(Rows[k].cells[j]) \/ Rows[k].cells[j] <= OUTLIER_PCT
          /\ \A j \in 1..Len(pace_cols) : \A e \in 1..Len(EventOf(j)) :
                 EventOf(j)[e].laptime_pct_alien = OUTLIER_PCT =>
                     \E k \in 1..Len(Rows) :
                         /\ Rows[k].Driver_name = EventOf(j)[e].Driver_name
                         /\ Rows[k].cells[j] = OUTLIER_PCT
    /\ (Improved /\ has_improvement) =>
          \A k \in 1..Len(improvement_df) :
              LET r == improvement_df[k]
                  InTable(v) == \E q \in 1..Len(Rows) : \E j \in 1..Len(pace_cols) :
                                    Rows[q].cells[j] = v /\ v <= OUTLIER_PCT
              IN  /\ IsNa(r.best_first_two) \/ InTable(r.best_first_two)
                  /\ IsNa(r.best_last_two) \/ InTable(r.best_last_two)
                  /\ IsNa(r.improvement)
                       \/ r.improvement = r.best_first_two - r.best_last_two

\* C1 witness: one event pace above the ceiling was removed, a pace of exactly
\* 107.00 is in the table and is the best_first_two of an improvement row.
C1_Witness ==
    /\ Improved /\ has_improvement
    /\ \E j \in 1..Len(pace_cols) : \E e \in 1..Len(EventOf(j)) :
           EventOf(j)[e].laptime_pct_alien > OUTLIER_PCT
    /\ \E k \in 1..Len(Rows) : \E j \in 1..Len(pace_cols) :
           Rows[k].cells[j] = OUTLIER_PCT
    /\ \E k \in 1..Len(improvement_df) :
           improvement_df[k].best_first_two = OUTLIER_PCT

\* C2 (as claimed): every row of the returned comparison table has at least
\* one non-missing pace cell.
C2_NoAllMissingRow ==
    Compared => \A k \in 1..Len(Rows) : ~AllNa(Rows[k])

\* C3 (as claimed): the comparison table has one row for every driver that
\* has a pace in a merged event, and never two rows with the same Driver_name.
C3_OneRowPerDriver ==
    Compared =>
        /\ \A a, b \in 1..Len(Rows) :
               Rows[a].Driver_name = Rows[b].Driver_name => a = b
        /\ \A j \in 1..Len(pace_cols) : \A e \in 1..Len(EventOf(j)) :
               ValidPace(EventOf(j)[e].laptime_pct_alien) =>
                   \E k \in 1..Len(Rows) :
                       Rows[k].Driver_name = EventOf(j)[e].Driver_name

\* the rows of the comparison merged in the opposite order of events, their
\* cells put back in championship order
ReverseMerged ==
    LET m == ComparisonRows(race_dfs, Reverse(pace_cols), code_to_track)[1]
    IN  {[Driver_name |-> m[k].Driver_name, cells |-> Reverse(m[k].cells)] :
            k \in 1..Len(m)}

\* C4: a driver absent from event A and present in event B with a valid pace
\* has a row with a missing cell in A's column and the pace in B's column,
\* for A before B and for B before A in the order of the merge; and merging
\* the events in the opposite order gives the same rows.
C4_MergeOrder ==
    Compared =>
        /\ \A a, b \in 1..Len(pace_cols) : \A e \in 1..Len(EventOf(b)) :
               LET r == EventOf(b)[e]
               IN  (a # b /\ r.Driver_name \notin NamesOf(EventOf(a))
                          /\ ValidPace(r.laptime_pct_alien)) =>
                       \E k \in 1..Len(Rows) :
                           /\ Rows[k].Driver_name = r.Driver_name
                           /\ IsNa(Rows[k].cells[a])
                           /\ Rows[k].cells[b] = r.laptime_pct_alien
        /\ ReverseMerged = Range(Rows)

\* C4 witness: one driver is absent from an earlier event and present in a
\* later one, another driver the other way round.
C4_Witness ==
    /\ Compared
    /\ \E a, b \in 1..Len(pace_cols) : \E d1, d2 \in NamesOf(EventOf(a)) \cup NamesOf(EventOf(b)) :
           /\ a < b
           /\ d1 \notin NamesOf(EventOf(a))
           /\ \E e \in 1..Len(EventOf(b)) :
                  EventOf(b)[e].Driver_name = d1 /\ ValidPace(EventOf(b)[e].laptime_pct_alien)
           /\ d2 \notin NamesOf(EventOf(b))
           /\ \E e \in 1..Len(EventOf(a)) :
                  EventOf(a)[e].Driver_name = d2 /\ ValidPace(EventOf(a)[e].laptime_pct_alien)

\* the non-missing cells of columns lo..hi of a row
CellsIn(row, lo, hi) == {row.cells[j] : j \in lo..hi} \ {NaN}

\* v is the least member of S, or NaN when S is empty
LeastOf(v, S) == IF S = {} THEN IsNa(v) ELSE v \in S /\ \A x \in S : v <= x

\* C5: with at least two pace columns, every row of improvement_df has
\* best_first_two = least non-missing cell of the first two columns,
\* best_last_two = least non-missing cell of the last two columns (missing
\* when there is none), improvement = best_first_two - best_last_two (105.00
\* and 102.00 give 3.00), one row per row of the comparison table that has a
\* pace, and the rows are in descending order of improvement, the rows
\* without an improvement last.
C5_Improvement ==
    (Improved /\ Len(pace_cols) >= 2) =>
        LET n == Len(pace_cols) IN
        /\ has_improvement
        /\ Len(improvement_df) = Cardinality({k \in 1..Len(Rows) : ~AllNa(Rows[k])})
        /\ \A k \in 1..Len(improvement_df) :
               LET r == improvement_df[k] IN
               /\ \E q \in 1..Len(Rows) :
                      Rows[q].Driver_name = r.Driver_name /\ Rows[q].cells = r.cells
               /\ LeastOf(r.best_first_two, CellsIn(r, 1, 2))
               /\ LeastOf(r.best_last_two, CellsIn(r, n - 1, n))
               /\ IF IsNa(r.best_first_two) \/ IsNa(r.best_last_two)
                  THEN IsNa(r.improvement)
                  ELSE r.improvement = r.best_first_two - r.best_last_two
               /\ (r.best_first_two = 10500 /\ r.best_last_two = 10200)
                      => r.improvement = 300
        /\ \A k, l \in 1..Len(improvement_df) :
               k < l =>
                   \/ IsNa(improvement_df[l].improvement)
                   \/ /\ ~IsNa(improvement_df[k].improvement)
                      /\ improvement_df[k].improvement >= improvement_df[l].improvement

\* C5 witness: three pace columns, a driver who got faster ahead of a driver
\* who got slower or stayed level, and a driver without improvement value.
C5_Witness ==
    /\ Improved /\ Len(pace_cols) = 3
    /\ \E k, l \in 1..Len(improvement_df) :
           /\ k < l
           /\ ~IsNa(improvement_df[l].improvement)
           /\ improvement_df[k].best_first_two = 10500
           /\ improvement_df[k].best_last_two = 10200
           /\ improvement_df[k].improvement = 300
           /\ improvement_df[l].improvement <= 0

\* the files of the scenario: X = Greg with 104.50 and 101.20 in events 1 and
\* 3, Y = Ann with 103.00, 102.50, 107.50
IsScenario ==
    xml = << ScenarioFile(Float(104500, 0), Float(103000, 0)),
             ScenarioFile(Empty, Float(102500, 0)),
             ScenarioFile(Float(101200, 0), Float(107500, 0)) >>

GregName == <<"Greg", " ", "Kachadurian">>

\* C6: in the scenario the comparison table is X: 104.50, missing, 101.20 and
\* Y: 103.00, 102.50, missing, and the improvement record of X is
\* best_first_two 104.50, best_last_two 101.20, improvement 3.30.
C6_Scenario ==
    /\ (IsScenario /\ Compared) =>
          Rows = << [Driver_name |-> Ann, cells |-> <<10300, 10250, NaN>>],
                    [Driver_name |-> GregName, cells |-> <<10450, NaN, 10120>>] >>
    /\ (IsScenario /\ Improved) =>
          /\ has_improvement
          /\ Cardinality({k \in 1..Len(improvement_df) :
                             improvement_df[k].Driver_name = GregName}) = 1
          /\ \A k \in 1..Len(improvement_df) :
                 improvement_df[k].Driver_name = GregName =>
                     /\ improvement_df[k].best_first_two = 10450
                     /\ improvement_df[k].best_last_two = 10120
                     /\ improvement_df[k].improvement = 330

\* C6 witness: the scenario has run up to the improvement records.
C6_Witness == IsScenario /\ Improved /\ Len(improvement_df) = 2

\* C7 (as claimed): with fewer than two pace columns generate_html_tables
\* completes and the improvement table has no rows.
C7_SingleEventReport ==
    (Compared /\ Len(pace_cols) < 2 /\ Len(track_names) = Len(pace_cols)
        /\ pc \notin {"improve", "tables"}) =>
        pc = "written" /\ improvement_html = <<>>

\* the lap times of an event table that are valid (> 0)
ValidLaps(df) == {df[k].laptime_sec : k \in {q \in 1..Len(df) : df[q].laptime_sec > 0}}

\* C8: in every event table with a valid lap, each driver whose lap is the
\* fastest valid lap has laptime_pct = 100.00.
C8_FastestIs100 ==
    \A t \in DOMAIN race_dfs : \A k \in 1..Len(race_dfs[t]) :
        (race_dfs[t][k].laptime_sec > 0
            /\ \A x \in ValidLaps(race_dfs[t]) : race_dfs[t][k].laptime_sec <= x)
        => race_dfs[t][k].laptime_pct = 10000

\* C8 witness: an event table with two different valid laps and a lap that
\* is not valid.
C8_Witness ==
    \E t \in DOMAIN race_dfs :
        /\ Cardinality(ValidLaps(race_dfs[t])) >= 2
        /\ \E k \in 1..Len(race_dfs[t]) : race_dfs[t][k].laptime_sec <= 0

\* p is n / d * 100 rounded to two decimals (p in hundredths), d # 0
IsPctOf(p, n, d) == 2 * Abs(p * d - n * 10000) <= Abs(d)

\* C9: in an event table with a valid lap, laptime_pct of every driver is
\* least valid lap / own lap * 100 rounded to two decimals, the least taken
\* over the laps > 0 only (own lap 0: the quotient is infinite); in an event
\* table without valid lap, laptime_pct is 100 for every driver.
C9_FieldPct ==
    \A t \in DOMAIN race_dfs : \A k \in 1..Len(race_dfs[t]) :
        LET r == race_dfs[t][k]
            V == ValidLaps(race_dfs[t])
        IN  IF V = {} THEN r.laptime_pct = 10000
            ELSE \E m \in V :
                    /\ \A x \in V : m <= x
                    /\ IF r.laptime_sec = 0 THEN r.laptime_pct = Inf
                       ELSE IsPctOf(r.laptime_pct, m, r.laptime_sec)

\* C9 witness: an event table with a valid lap, a slower valid lap whose
\* percentage is rounded, and a lap below zero.
C9_Witness ==
    \E t \in DOMAIN race_dfs : \E k, l \in 1..Len(race_dfs[t]) :
        /\ race_dfs[t][k].laptime_sec > 0
        /\ race_dfs[t][k].laptime_pct < 10000
        /\ race_dfs[t][k].laptime_pct * race_dfs[t][k].laptime_sec
              # 10000 * race_dfs[t][l].laptime_sec
        /\ race_dfs[t][l].laptime_pct = 10000
        /\ \E q \in 1..Len(race_dfs[t]) : race_dfs[t][q].laptime_sec < 0

\* C10: laptime_pct_alien of every driver is own lap / reference lap * 100
\* rounded to two decimals when the reference lap is > 0, and 100 when the
\* reference lap is 0 or below; the event is loaded in both cases.
C10_ReferencePct ==
    /\ \A t \in DOMAIN race_dfs : \A k \in 1..Len(race_dfs[t]) :
           LET r == race_dfs[t][k]
               ref == config[TrackIndex(t)].ref_time
           IN  IF ref > 0 THEN IsPctOf(r.laptime_pct_alien, r.laptime_sec, ref)
               ELSE r.laptime_pct_alien = 10000
    /\ \A k \in 1..Len(config) :
           (k < i /\ xml[k].exists /\ ClassFilter(xml[k].drivers, car_class) # <<>>)
               => config[k].name \in DOMAIN race_dfs

\* C10 witness: an event with a reference lap of 0 or below is loaded, and
\* one of its drivers has a lap other than 0.
C10_Witness ==
    \E t \in DOMAIN race_dfs : \E k \in 1..Len(race_dfs[t]) :
        /\ config[TrackIndex(t)].ref_time <= 0
        /\ race_dfs[t][k].laptime_sec > 0
        /\ race_dfs[t][k].laptime_pct_alien = 10000

\* the reference lap of the event behind pace column j
RefOf(j) == config[pace_cols[j]].ref_time

\* C11 (as claimed): an event whose reference lap is 0 or below contributes
\* only missing cells to the comparison table.
C11_NonPositiveRefMissing ==
    Compared =>
        \A j \in 1..Len(pace_cols) :
            RefOf(j) <= 0 => \A k \in 1..Len(Rows) : IsNa(Rows[k].cells[j])

\* C11: an event whose reference lap is 0 or below is a pace column of the
\* comparison table in which every driver of the event has a cell of 100.00
\* (also a driver without valid lap), and no cell of the column is anything
\* but 100.00 or missing.
C11_NonPositiveRefIs100 ==
    Compared =>
        \A j \in 1..Len(pace_cols) :
            RefOf(j) <= 0 =>
                /\ \A e \in 1..Len(EventOf(j)) :
                       \E k \in 1..Len(Rows) :
                           /\ Rows[k].Driver_name = EventOf(j)[e].Driver_name
                           /\ Rows[k].cells[j] = 10000
                /\ \A k \in 1..Len(Rows) :
                       IsNa(Rows[k].cells[j]) \/ Rows[k].cells[j] = 10000

\* C11 witness: a comparison of an event with a reference lap of 0 or below
\* and one with a reference lap above 0; a driver has 100.00 in the first
\* and another pace in the second.
C11_Witness ==
    /\ Compared
    /\ \E a, b \in 1..Len(pace_cols) : \E k \in 1..Len(Rows) :
           /\ RefOf(a) <= 0 /\ RefOf(b) > 0
           /\ Rows[k].cells[a] = 10000
           /\ ~IsNa(Rows[k].cells[b]) /\ Rows[k].cells[b] # 10000

\* the BestLapTime text behind row k of the event table of track t (no class
\* filter: the rows of the table are the <Driver> elements in file order)
LapTextOf(t, k) == xml[TrackIndex(t)].drivers[k].BestLapTime

\* C12: laptime_sec is minutes * 60 + seconds for a text "minutes:seconds",
\* the number itself (to the millisecond that extract_xml_drivers writes)
\* for a text that is a number, and 0 for every other text (empty, no
\* number, a ':' with a part that is no number); a number given to
\* convert_laptime_to_seconds in place of a text comes back as it is.  No
\* text stops the load of the event.
C12_ConvertLaptime ==
    car_class = "" =>
        /\ \A t \in DOMAIN race_dfs : \A k \in 1..Len(race_dfs[t]) :
               LET x == LapTextOf(t, k)
                   sec == race_dfs[t][k].laptime_sec
               IN  /\ x.kind = "clock" => sec = x.a * 60000 + x.b
                   /\ x.kind = "float" => 2 * Abs(10 * sec - (10 * x.a + x.b)) <= 10
                   /\ x.kind = "nan" => IsNa(sec)
                   /\ x.kind \in {"text", "empty", "badclock"} => sec = 0
                   /\ ~IsNa(sec) => convert_laptime_to_seconds(Num(sec)) = sec
        /\ \A k \in 1..Len(config) :
               (k < i /\ xml[k].exists /\ xml[k].drivers # <<>>)
                   => /\ config[k].name \in DOMAIN race_dfs
                      /\ Len(race_dfs[config[k].name]) = Len(xml[k].drivers)

\* C12 witness: an event table with a lap from a "minutes:seconds" text of
\* more than a minute, a lap from a number whose last digit was rounded, and
\* a lap of 0 from a text with ':' that is no lap time.
C12_Witness ==
    /\ car_class = ""
    /\ \E t \in DOMAIN race_dfs : \E a, b, c \in 1..Len(race_dfs[t]) :
           /\ LapTextOf(t, a).kind = "clock" /\ LapTextOf(t, a).a > 0
           /\ race_dfs[t][a].laptime_sec > 60000
           /\ LapTextOf(t, b).kind = "float" /\ LapTextOf(t, b).b # 0
           /\ race_dfs[t][b].laptime_sec > 0
           /\ LapTextOf(t, c).kind = "badclock"
           /\ race_dfs[t][c].laptime_sec = 0

\* C13 (as claimed): no stored laptime_sec is below zero.
C13_NeverNegative ==
    \A t \in DOMAIN race_dfs : \A k \in 1..Len(race_dfs[t]) :
        ~IsNa(race_dfs[t][k].laptime_sec) => race_dfs[t][k].laptime_sec >= 0

\* C14 (as claimed): convert_laptime_to_seconds of a stored laptime_sec is
\* that laptime_sec again.
C14_ConvertIdempotent ==
    \A t \in DOMAIN race_dfs : \A k \in 1..Len(race_dfs[t]) :
        convert_laptime_to_seconds(Num(race_dfs[t][k].laptime_sec))
            = race_dfs[t][k].laptime_sec

\* C15 (as claimed): a lap of 0 (unset) is not the field minimum of its
\* event, and the driver of such a lap, when it is the driver's only entry of
\* the event, has a missing cell in the event's pace column, for a reference
\* lap above 0 and for one of 0 or below.
C15_UnsetNeverValid ==
    /\ \A t \in DOMAIN race_dfs : \A k \in 1..Len(race_dfs[t]) :
           (ValidLaps(race_dfs[t]) # {} /\ race_dfs[t][k].laptime_pct = 10000)
               => race_dfs[t][k].laptime_sec # 0
    /\ Compared =>
           \A j \in 1..Len(pace_cols) : \A e \in 1..Len(EventOf(j)) :
               (/\ EventOf(j)[e].laptime_sec = 0
                /\ \A f \in 1..Len(EventOf(j)) :
                       EventOf(j)[f].Driver_name = EventOf(j)[e].Driver_name => f = e)
               => \A k \in 1..Len(Rows) :
                      Rows[k].Driver_name = EventOf(j)[e].Driver_name
                          => IsNa(Rows[k].cells[j])

\* the run of one report is over
Ended == pc \in {"written", "omitted", "KeyError", "ParseError"}

Absent == {k \in 1..Len(config) : ~xml[k].exists}

\* C16 (as claimed): with the file of an event absent, and every file that
\* exists holding drivers, the run completes; no pace column belongs to the
\* absent event; the pace columns are the events with a file, in
\* championship order; and the table of every other event is the table
\* computed from its own file alone.
C16_AbsentEvent ==
    (Ended /\ car_class = "" /\ Absent # {}
        /\ \A k \in 1..Len(config) : xml[k].exists => xml[k].drivers # <<>>) =>
        /\ pc \in {"written", "omitted"}
        /\ \A j \in 1..Len(pace_cols) : pace_cols[j] \notin Absent
        /\ pc = "written" => pace_cols = ExistingCodes
        /\ \A k \in 1..Len(config) :
               xml[k].exists =>
                   /\ config[k].name \in DOMAIN race_dfs
                   /\ race_dfs[config[k].name]
                         = PaceTable(xml[k].drivers, config[k].ref_time)

\* the events whose file exists and holds no row of the report's class
EmptyEvents ==
    {k \in 1..Len(config) :
        xml[k].exists /\ ClassFilter(xml[k].drivers, car_class) = <<>>}

\* the codes of the events that have a table, in championship order: what
\* load_races_dynamically returns when the files of EmptyEvents are absent
TableCodes ==
    SelectSeq([k \in 1..Len(config) |-> k],
              LAMBDA k : xml[k].exists /\ k \notin EmptyEvents)

\* C17 (as claimed): a run with an empty event ends as the run without that
\* event's file does: when an event has a table the comparison is made, its
\* pace columns are the events with a table and the column headers are
\* their track names, and with two or more such events the report is
\* written.
C17_EmptyEventAsAbsent ==
    (Ended /\ EmptyEvents # {}) =>
        /\ TableCodes # <<>> =>
               /\ Compared
               /\ pace_cols = TableCodes
               /\ track_names = [j \in 1..Len(TableCodes) |-> config[TableCodes[j]].name]
        /\ Len(TableCodes) >= 2 => pc = "written"

Malformed == {k \in 1..Len(config) : xml[k].exists /\ ~xml[k].wellformed}

\* C18 (as claimed): a run with a malformed file does not abort; the
\* malformed event has no table, and every other event whose file holds
\* drivers has its table.
C18_MalformedSkipped ==
    (Ended /\ Malformed # {}) =>
        /\ pc # "ParseError"
        /\ \A k \in Malformed : config[k].name \notin DOMAIN race_dfs
        /\ \A k \in 1..Len(config) :
               (xml[k].exists /\ xml[k].drivers # <<>>)
                   => config[k].name \in DOMAIN race_dfs

AliasKeys == {DRIVER_REPLACEMENTS[k][1] : k \in 1..Len(DRIVER_REPLACEMENTS)}

\* the raw <Name> texts of the event behind pace column j
RawNames(j) ==
    {xml[pace_cols[j]].drivers[e].Driver : e \in 1..Len(xml[pace_cols[j]].drivers)}

\* C19: a raw name that is a key of DRIVER_REPLACEMENTS has the value of
\* that key as Driver_name in its event table, no event table and no row of
\* the comparison table carries a key as Driver_name, and a driver who has
\* at most one entry in every merged event has at most one row in the
\* comparison table, whatever the spelling of the raw names.
C19_AliasBeforeMerge ==
    car_class = "" =>
        /\ \A t \in DOMAIN race_dfs : \A k \in 1..Len(race_dfs[t]) :
               /\ race_dfs[t][k].Driver_name \notin AliasKeys
               /\ \A q \in 1..Len(DRIVER_REPLACEMENTS) :
                      xml[TrackIndex(t)].drivers[k].Driver = DRIVER_REPLACEMENTS[q][1]
                          => race_dfs[t][k].Driver_name = DRIVER_REPLACEMENTS[q][2]
        /\ Compared =>
               \A k \in 1..Len(Rows) :
                   /\ Rows[k].Driver_name \notin AliasKeys
                   /\ (\A j \in 1..Len(pace_cols) :
                          Cardinality({e \in 1..Len(EventOf(j)) :
                              EventOf(j)[e].Driver_name = Rows[k].Driver_name}) <= 1)
                       => \A q \in 1..Len(Rows) :
                              Rows[q].Driver_name = Rows[k].Driver_name => q = k

\* C19 witness: the raw name 'Greg Kach' in one event and the raw name
\* 'Greg Kachadurian LMGT3 #12' in another, and one row 'Greg Kachadurian'
\* with the paces of both.
C19_Witness ==
    /\ Compared
    /\ \E a, b \in 1..Len(pace_cols) : \E k \in 1..Len(Rows) :
           /\ a # b
           /\ RawNames(a) = {GregKach} /\ RawNames(b) = {GregFull}
           /\ Rows[k].Driver_name = <<"Greg", " ", "Kachadurian">>
           /\ ~IsNa(Rows[k].cells[a]) /\ ~IsNa(Rows[k].cells[b])
           /\ \A q \in 1..Len(Rows) : Rows[q].Driver_name = Rows[k].Driver_name => q = k

\* one entry of DRIVER_REPLACEMENTS applied to a name
Replace1(name, q) ==
    IF name = DRIVER_REPLACEMENTS[q][1] THEN DRIVER_REPLACEMENTS[q][2] ELSE name

\* the entries applied one after the other, the last entry first
RECURSIVE ApplyReversed(_, _)
ApplyReversed(name, q) == IF q = 0 THEN name ELSE ApplyReversed(Replace1(name, q), q - 1)

\* the name before the alias loop
Stripped(raw) == IF HasMarker(raw) THEN Strip(BeforeMarker(raw)) ELSE Strip(raw)

\* every name that the alias loop can hold for the raw name
AliasNames(raw) ==
    {Stripped(raw)} \cup AliasKeys
        \cup {DRIVER_REPLACEMENTS[q][2] : q \in 1..Len(DRIVER_REPLACEMENTS)}

\* C20: for the raw name of every row of an event table, any two entries of
\* DRIVER_REPLACEMENTS applied in either order give the same name, on every
\* name the loop can hold (so every order of the entries gives the same
\* Driver_name), and the entries applied last to first give the row's
\* Driver_name; no two entries have the same key; the same raw name has the
\* same Driver_name in every event; and the Driver_name normalized again is
\* unchanged.
C20_NormalizationPure ==
    /\ \A p, q \in 1..Len(DRIVER_REPLACEMENTS) :
           DRIVER_REPLACEMENTS[p][1] = DRIVER_REPLACEMENTS[q][1] => p = q
    /\ car_class = "" =>
           \A t \in DOMAIN race_dfs : \A k \in 1..Len(race_dfs[t]) :
               LET raw == xml[TrackIndex(t)].drivers[k].Driver
                   id == race_dfs[t][k].Driver_name
               IN  /\ \A n \in AliasNames(raw) :
                          \A p, q \in 1..Len(DRIVER_REPLACEMENTS) :
                              Replace1(Replace1(n, p), q) = Replace1(Replace1(n, q), p)
                   /\ ApplyReversed(Stripped(raw), Len(DRIVER_REPLACEMENTS)) = id
                   /\ DriverName(id) = id
                   /\ \A u \in DOMAIN race_dfs : \A e \in 1..Len(race_dfs[u]) :
                          xml[TrackIndex(u)].drivers[e].Driver = raw
                              => race_dfs[u][e].Driver_name = id

\* C20 witness: two event tables; the raw names 'David Carter' and
\* 'David Carter#5529' both became 'Dave Carter', and a raw name with the
\* class marker became the value of an alias key.
C20_Witness ==
    /\ Cardinality(DOMAIN race_dfs) = 2
    /\ \E t, u, v \in DOMAIN race_dfs :
           \E a \in 1..Len(race_dfs[t]), b \in 1..Len(race_dfs[u]), c \in 1..Len(race_dfs[v]) :
               /\ xml[TrackIndex(t)].drivers[a].Driver = <<"David", " ", "Carter">>
               /\ xml[TrackIndex(u)].drivers[b].Driver = <<"David", " ", "Carter#5529">>
               /\ race_dfs[t][a].Driver_name = <<"Dave", " ", "Carter">>
               /\ race_dfs[u][b].Driver_name = <<"Dave", " ", "Carter">>
               /\ HasMarker(xml[TrackIndex(v)].drivers[c].Driver)
               /\ race_dfs[v][c].Driver_name = <<"Ross", " ", "McLean">>

\* the pace columns of the two earliest rounds, and of the two latest
FirstTwoRounds ==
    {j \in 1..Len(pace_cols) :
        Cardinality({q \in 1..Len(pace_cols) : pace_cols[q] < pace_cols[j]}) < 2}

LastTwoRounds ==
    {j \in 1..Len(pace_cols) :
        Cardinality({q \in 1..Len(pace_cols) : pace_cols[q] > pace_cols[j]}) < 2}

\* C21 (as claimed): the pace columns are in the order of the championship
\* rounds, and best_first_two and best_last_two of every improvement row are
\* the least paces of the two earliest and of the two latest rounds of the
\* table.
C21_RoundOrder ==
    /\ Compared =>
           \A a, b \in 1..Len(pace_cols) : a < b => pace_cols[a] < pace_cols[b]
    /\ (Improved /\ has_improvement) =>
           \A k \in 1..Len(improvement_df) :
               LET r == improvement_df[k] IN
               /\ LeastOf(r.best_first_two, {r.cells[j] : j \in FirstTwoRounds} \ {NaN})
               /\ LeastOf(r.best_last_two, {r.cells[j] : j \in LastTwoRounds} \ {NaN})

\* the row has no pace in the first two columns, or none in the last two
NoFirstOrLastTwo(row) ==
    CellsIn(row, 1, 2) = {} \/ CellsIn(row, Len(pace_cols) - 1, Len(pace_cols)) = {}

\* C22: in a written report, a row without pace in both of the first two
\* columns, or in both of the last two, has no improvement value; the
\* improvement table has the rows with an improvement value and no others,
\* so a driver whose only row is such a row is not in it; and every row of
\* the comparison table with a pace is a row of improvement_df and of the
\* pace table.
C22_NoImprovementExcluded ==
    pc = "written" =>
        /\ \A k \in 1..Len(improvement_df) :
               NoFirstOrLastTwo(improvement_df[k]) <=> IsNa(improvement_df[k].improvement)
        /\ Len(improvement_html)
              = Cardinality({k \in 1..Len(improvement_df) :
                                ~NoFirstOrLastTwo(improvement_df[k])})
        /\ \A h \in 1..Len(improvement_html) : ~IsNa(improvement_html[h].improvement)
        /\ \A k \in 1..Len(Rows) :
               (/\ NoFirstOrLastTwo(Rows[k])
                /\ \A q \in 1..Len(Rows) :
                       Rows[q].Driver_name = Rows[k].Driver_name => q = k)
               => \A h \in 1..Len(improvement_html) :
                      improvement_html[h].Driver # Rows[k].Driver_name
        /\ \A k \in 1..Len(Rows) :
               ~AllNa(Rows[k]) =>
                   /\ \E q \in 1..Len(improvement_df) :
                          /\ improvement_df[q].Driver_name = Rows[k].Driver_name
                          /\ improvement_df[q].cells = Rows[k].cells
                   /\ \E q \in 1..Len(pace_html) :
                          /\ pace_html[q].Driver = ShortName(Rows[k].Driver_name)
                          /\ pace_html[q].cells = Rows[k].cells

\* C22 witness: a written report of three events; one driver has a pace in
\* the third event only and another in the first event only, both are rows
\* of the pace table and neither is in the improvement table.
C22_Witness ==
    /\ pc = "written" /\ Len(pace_cols) = 3
    /\ \E a, b \in 1..Len(Rows) :
           /\ CellsIn(Rows[a], 1, 2) = {} /\ CellsIn(Rows[a], 3, 3) # {}
           /\ CellsIn(Rows[b], 2, 3) = {} /\ CellsIn(Rows[b], 1, 1) # {}
           /\ \E q \in 1..Len(pace_html) : pace_html[q].cells = Rows[a].cells
           /\ \E q \in 1..Len(pace_html) : pace_html[q].cells = Rows[b].cells
           /\ \A h \in 1..Len(improvement_html) :
                  improvement_html[h].Driver \notin {Rows[a].Driver_name, Rows[b].Driver_name}

\* C23 (as claimed): when the comparison table is produced, pace_cols and
\* track_names have the same length and track_names[j] is the track of the
\* event of pace column j.
C23_ColumnsMatchTracks ==
    Compared =>
        /\ Len(pace_cols) = Len(track_names)
        /\ \A j \in 1..Len(pace_cols) :
               j <= Len(track_names) /\ track_names[j] = code_to_track[pace_cols[j]]

\* C24: with exactly two pace columns, every row of improvement_df has a
\* pace, best_first_two = best_last_two and improvement = 0; every row of
\* the comparison table with a pace is such a row; and in a written report
\* every row of improvement_df is a row of the improvement table, with
\* improvement 0.
C24_TwoEventsNoImprovement ==
    (Improved /\ Len(pace_cols) = 2) =>
        /\ has_improvement
        /\ \A k \in 1..Len(improvement_df) :
               /\ ~AllNa(improvement_df[k])
               /\ improvement_df[k].best_first_two = improvement_df[k].best_last_two
               /\ improvement_df[k].improvement = 0
        /\ \A k \in 1..Len(Rows) :
               ~AllNa(Rows[k]) =>
                   \E q \in 1..Len(improvement_df) :
                       /\ improvement_df[q].Driver_name = Rows[k].Driver_name
                       /\ improvement_df[q].cells = Rows[k].cells
        /\ pc = "written" =>
               /\ Len(improvement_html) = Len(improvement_df)
               /\ \A h \in 1..Len(improvement_html) : improvement_html[h].improvement = 0

\* C24 witness: a written report of two events; a driver with two different
\* paces and a driver with a pace in the second event only, both with
\* improvement 0.
C24_Witness ==
    /\ pc = "written" /\ Len(pace_cols) = 2
    /\ \E a, b \in 1..Len(improvement_df) :
           /\ ~IsNa(improvement_df[a].cells[1]) /\ ~IsNa(improvement_df[a].cells[2])
           /\ improvement_df[a].cells[1] # improvement_df[a].cells[2]
           /\ improvement_df[a].improvement = 0
           /\ IsNa(improvement_df[b].cells[1]) /\ ~IsNa(improvement_df[b].cells[2])
           /\ improvement_df[b].improvement = 0
    /\ Len(improvement_html) >= 2

====
